---- MODULE Spec2Model ----
(***************************************************************************)
(* 3d-maze-game: maze generation (js/maze.js generateMaze / carvePath) and *)
(* the per-frame movement and collision step (js/main.js animate,          *)
(* checkCollision), with the controls that touch the same state            *)
(* (js/controls.js).                                                       *)
(*                                                                         *)
(* Cell values are the program's: 1 = wall, 0 = path, 2 = exit.            *)
(* A world coordinate is kept as twice its value (an integer number of     *)
(* half cells), so that mazeSize / 2 and the + 0.5 of the grid-to-world    *)
(* mapping are exact; Math.floor is floor division.  The height (y) of a   *)
(* position plays no part in any test and is left out.                     *)
(***************************************************************************)
EXTENDS Integers, Sequences, FiniteSets

VARIABLES
    pc,            \* where initGame stands in generateMaze: "load", "carve",
                   \* "place", "threw" (a TypeError left it), "done" (returned)
    mazeSize,      \* generateMaze parameter mazeSize
    startX,        \* generateMaze parameter startX
    startY,        \* generateMaze parameter startY
    maze,          \* the global maze (mazeArray): maze[y][x]
    stack,         \* the call stack of carvePath: one frame per active call
    rand,          \* randX, randY of the last iteration of the exit loop
    exitPosition,  \* the global exitPosition (x, z)
    position,      \* player.position (x, z)
    velocity,      \* player.velocity (x, z)
    cameraMode,    \* "first-person" or "third-person"
    isLocked,      \* pointerControls.isLocked
    orbitEnabled,  \* orbitControls.enabled
    messageShown,  \* the message box is displayed
    keys,          \* the movement keys held: the k with keys[k] true
    last           \* what the most recent operation on the player or the
                   \* controls did (history)

genVars == <<pc, mazeSize, startX, startY, maze, stack, rand, exitPosition>>
gameVars == <<position, velocity, cameraMode, isLocked, orbitEnabled, messageShown,
             keys, last>>
vars == <<pc, mazeSize, startX, startY, maze, stack, rand, exitPosition,
          position, velocity, cameraMode, isLocked, orbitEnabled, messageShown,
          keys, last>>

\* Largest grid size generateMaze is called with.
MaxSize == 5

\* maze.js:18: 1 = wall, 0 = path, 2 = exit.
WALL == 1
PATH == 0
EXIT == 2

\* main.js:22.
CELL_SIZE == 1

\* main.js:16: player.speed = 0.15, in hundredths.
SpeedPercent == 15

\* main.js:134-138 and 183-194: a frame takes a sixth of a velocity component
\* away (10.0 * delta, delta = 1 / 60) and the thrust adds at most speed to it,
\* so a component stays within 6 * speed = 0.9; doubled, on the half-cell
\* grid, that is one half cell a frame.
MaxVel == (2 * 6 * SpeedPercent) \div 100

\* Most movement keys held down at once.
MaxKeys == 1

\* The keys animate reads.
MoveKeys == {"w", "s", "a", "d"}

\* controls.js:245-262: joystickLeftValue, x / radius and y / radius of a touch
\* clamped to the joystick's disc: the centre and the four ends.  The touch
\* handlers (controls.js:140-179) write nothing else the model holds, so they
\* are no steps of their own: a frame reads whatever value they left.
JoyValues ==
    { [x |-> 0, y |-> 0], [x |-> 1, y |-> 0], [x |-> -1, y |-> 0],
      [x |-> 0, y |-> 1], [x |-> 0, y |-> -1] }

Idx(n) == 0 .. (n - 1)

\* maze.js:26-31, in source order: right, left, down, up.
Directions ==
    << [dx |-> 1, dy |-> 0], [dx |-> -1, dy |-> 0],
       [dx |-> 0, dy |-> 1], [dx |-> 0, dy |-> -1] >>

\* [directions[i], directions[j]] = [directions[j], directions[i]] (1-based).
Swap(s, i, j) == [s EXCEPT ![i] = s[j], ![j] = s[i]]

\* maze.js:33-36: Fisher-Yates over the four directions; j4, j3, j2 are the
\* draws Math.floor(Math.random() * (i + 1)) for i = 3, 2, 1 (here 1-based).
Shuffle(j4, j3, j2) == Swap(Swap(Swap(Directions, 4, j4), 3, j3), 2, j2)

Shuffles == { Shuffle(j4, j3, j2) : j4 \in 1 .. 4, j3 \in 1 .. 3, j2 \in 1 .. 2 }

\* maze.js:15-20: every cell a wall.
AllWalls(n) == [y \in Idx(n) |-> [x \in Idx(n) |-> WALL]]

SetCell(m, x, y, v) == [m EXCEPT ![y][x] = v]

\* CanCarve with the upper bounds one short: nx < mazeSize - 1.
CanCarveShort(m, n, nx, ny) ==
    /\ nx >= 0
    /\ nx < n - 1
    /\ ny >= 0
    /\ ny < n - 1
    /\ m[ny][nx] = WALL

\* maze.js:43-49: the neighbour two steps away is in bounds and still a wall.
CanCarve(m, n, nx, ny) ==
    /\ nx >= 0
    /\ nx < n
    /\ ny >= 0
    /\ ny < n
    /\ m[ny][nx] = WALL

\* maze.js:38-52: the index of the first direction of the shuffled array that
\* passes the test of lines 43-49 at (cx, cy), 0 when none does.
FirstCarvable(m, n, cx, cy, dirs) ==
    LET ok == { i \in 1 .. 4 :
                  CanCarve(m, n, cx + dirs[i].dx * 2, cy + dirs[i].dy * 2) }
    IN IF ok = {} THEN 0 ELSE CHOOSE i \in ok : \A j \in ok : i <= j

\* Carve without maze.js:50: the wall between stays.
CarveKeepsWall(m, cx, cy, dir) ==
    SetCell(m, cx + dir.dx * 2, cy + dir.dy * 2, PATH)

\* Carve that also sets the cell it leaves back to a wall.
CarveClosesBehind(m, cx, cy, dir) ==
    SetCell(SetCell(SetCell(m, cx + dir.dx, cy + dir.dy, PATH),
                    cx + dir.dx * 2, cy + dir.dy * 2, PATH),
            cx, cy, WALL)

\* maze.js:50 and 24: the wall between (cx, cy) and the neighbour two steps
\* along dir becomes a path, and carvePath(nx, ny) marks the neighbour.
Carve(m, cx, cy, dir) ==
    SetCell(SetCell(m, cx + dir.dx, cy + dir.dy, PATH),
            cx + dir.dx * 2, cy + dir.dy * 2, PATH)

\* A frame of carvePath(cx, cy).  Its shuffled array is not kept: an entry the
\* for loop has handled fails the test of lines 43-49 from then on (it was
\* refused, and no cell is ever set back to 1, or its target was carved), and
\* the draws of Math.random leave every order of the other entries possible.
\* So the entry the loop reaches next is the first carvable entry of some
\* shuffle, drawn when the loop gets there.
Frame(cx, cy) == [cx |-> cx, cy |-> cy]

\* main.js:12-33 and controls.js:32: the globals before window.onload.
Globals ==
    /\ pc = "load"
    /\ maze = << >>
    /\ stack = << >>
    /\ rand = << >>
    /\ exitPosition = [x |-> 0, z |-> 0]
    /\ position = [x |-> 0, z |-> 0]
    /\ velocity = [x |-> 0, z |-> 0]
    /\ cameraMode = "first-person"
    /\ isLocked = FALSE
    /\ orbitEnabled = FALSE
    /\ messageShown = FALSE
    /\ keys = {}
    /\ last = [op |-> "none"]

\* main.js:76-82: initGame calls generateMaze with the centre cell.  The
\* program's MAZE_SIZE is 15 ("must be odd"); the model takes the odd sizes
\* from 5 to MaxSize.
Init ==
    /\ Globals
    /\ mazeSize \in { n \in 5 .. MaxSize : n % 2 = 1 }
    /\ startX = mazeSize \div 2
    /\ startY = mazeSize \div 2

\* generateMaze on its own: any size from 1 to MaxSize, any cell of the grid
\* as the start.
InitGen ==
    /\ Globals
    /\ mazeSize \in 1 .. MaxSize
    /\ startX \in Idx(mazeSize)
    /\ startY \in Idx(mazeSize)

\* generateMaze up to the first statement of carvePath(startX, startY).
GenerateMaze ==
    /\ pc = "load"
    /\ maze' = SetCell(AllWalls(mazeSize), startX, startY, PATH)
    /\ stack' = << Frame(startX, startY) >>
    /\ pc' = "carve"
    /\ UNCHANGED <<mazeSize, startX, startY, rand, exitPosition, gameVars>>

\* The for loop of the innermost carvePath call runs to its next recursive
\* call: the wall between is carved and carvePath(nx, ny) marks its cell.
CarveStep ==
    /\ pc = "carve"
    /\ stack # << >>
    /\ LET top == stack[Len(stack)]
       IN \E dirs \in Shuffles :
            LET i == FirstCarvable(maze, mazeSize, top.cx, top.cy, dirs)
            IN /\ i # 0
               /\ LET dir == dirs[i]
                      nx == top.cx + dir.dx * 2
                      ny == top.cy + dir.dy * 2
                  IN /\ maze' = Carve(maze, top.cx, top.cy, dir)
                     /\ stack' = Append(stack, Frame(nx, ny))
    /\ UNCHANGED <<pc, mazeSize, startX, startY, rand, exitPosition, gameVars>>

\* No direction of the innermost call passes the test any more: its for loop
\* ends and the call returns; the outermost return leaves carving.
CarveReturn ==
    /\ pc = "carve"
    /\ stack # << >>
    /\ LET top == stack[Len(stack)]
       IN FirstCarvable(maze, mazeSize, top.cx, top.cy, Directions) = 0
    /\ stack' = SubSeq(stack, 1, Len(stack) - 1)
    /\ pc' = IF Len(stack) = 1 THEN "place" ELSE "carve"
    /\ UNCHANGED <<mazeSize, startX, startY, maze, rand, exitPosition, gameVars>>

\* RandInterior with the range one short: Math.random() * (n - 3).
RandInteriorShort(n) == IF n >= 3 THEN 1 .. (n - 3) ELSE (n - 1) .. 1

\* maze.js:61-62: the values Math.floor(Math.random() * (n - 2)) + 1 takes
\* for Math.random() in [0, 1).
RandInterior(n) == IF n >= 3 THEN 1 .. (n - 2) ELSE (n - 1) .. 1

\* Acceptable without maze.js:66: the start cell is not excluded.
AcceptableWithStart(m, n, sx, sy, rx, ry) ==
    /\ rx \in Idx(n)
    /\ m[ry][rx] = PATH

\* maze.js:64-67: the sampled cell is a path cell and not the start cell.  An
\* index past the row reads undefined, which is not 0.
Acceptable(m, n, sx, sy, rx, ry) ==
    /\ rx \in Idx(n)
    /\ m[ry][rx] = PATH
    /\ ~ (rx = sx /\ ry = sy)

\* ExitWorld with the half cell taken away: (rand - mazeSize / 2 - 0.5).
ExitWorldMinusHalf(r, n) == (2 * r - n - 1) * CELL_SIZE

\* maze.js:69-73: (rand - mazeSize / 2 + 0.5) * CELL_SIZE, doubled.
ExitWorld(r, n) == (2 * r - n + 1) * CELL_SIZE

\* maze.js:60-76: one iteration of the exit loop with the draws rx, ry.
\* mazeArray[randY] of a row that does not exist is undefined, and reading
\* [randX] of it throws.
PlaceExitAt(rx, ry) ==
    /\ pc = "place"
    /\ rx \in RandInterior(mazeSize)
    /\ ry \in RandInterior(mazeSize)
    /\ rand' = <<rx, ry>>
    /\ IF ry \notin Idx(mazeSize)
       THEN /\ pc' = "threw"
            /\ UNCHANGED <<maze, exitPosition>>
       ELSE IF Acceptable(maze, mazeSize, startX, startY, rx, ry)
       THEN /\ maze' = SetCell(maze, rx, ry, EXIT)
            /\ exitPosition' = [x |-> ExitWorld(rx, mazeSize), z |-> ExitWorld(ry, mazeSize)]
            /\ pc' = "done"
       ELSE UNCHANGED <<pc, maze, exitPosition>>
    /\ UNCHANGED <<mazeSize, startX, startY, stack, gameVars>>

\* Every value a draw can have for a size of the model.
Draws == 0 .. MaxSize

PlaceExit == \E rx \in Draws, ry \in Draws : PlaceExitAt(rx, ry)

NextGen == GenerateMaze \/ CarveStep \/ CarveReturn \/ PlaceExit

SpecGen == InitGen /\ [][NextGen]_vars

\* Fair sampling: a pair of draws that would change the state if it came up
\* does come up.
SpecGenFair ==
    SpecGen /\ \A rx \in Draws, ry \in Draws : WF_vars(PlaceExitAt(rx, ry))

\* part_002:23-24: Math.floor(coord + mazeSize / 2), coord given doubled.
GridIndex(c, n) == (c + n) \div 2

\* checkCollision without part_002:31-34: a wall is no collision.
CheckCollisionNoWall(newPos, m, n) ==
    LET gridX == GridIndex(newPos.x, n)
        gridZ == GridIndex(newPos.z, n)
    IN IF gridX < 0 \/ gridX >= n \/ gridZ < 0 \/ gridZ >= n
       THEN [collision |-> TRUE, win |-> FALSE]
       ELSE IF m[gridZ][gridX] = EXIT
       THEN [collision |-> FALSE, win |-> TRUE]
       ELSE [collision |-> FALSE, win |-> FALSE]

\* checkCollision without part_002:36-41: the exit is a path like any other.
CheckCollisionNoExit(newPos, m, n) ==
    LET gridX == GridIndex(newPos.x, n)
        gridZ == GridIndex(newPos.z, n)
    IN IF gridX < 0 \/ gridX >= n \/ gridZ < 0 \/ gridZ >= n
       THEN [collision |-> TRUE, win |-> FALSE]
       ELSE IF m[gridZ][gridX] = WALL
       THEN [collision |-> TRUE, win |-> FALSE]
       ELSE [collision |-> FALSE, win |-> FALSE]

\* checkCollision returning true at part_002:40: the exit stops the player.
CheckCollisionExitStops(newPos, m, n) ==
    LET gridX == GridIndex(newPos.x, n)
        gridZ == GridIndex(newPos.z, n)
    IN IF gridX < 0 \/ gridX >= n \/ gridZ < 0 \/ gridZ >= n
       THEN [collision |-> TRUE, win |-> FALSE]
       ELSE IF m[gridZ][gridX] = WALL
       THEN [collision |-> TRUE, win |-> FALSE]
       ELSE IF m[gridZ][gridX] = EXIT
       THEN [collision |-> TRUE, win |-> TRUE]
       ELSE [collision |-> FALSE, win |-> FALSE]

\* part_002:14-44 checkCollision(newPos, maze, mazeSize, ...): what it returns
\* (collision) and whether it showed the win message and called
\* pointerControls.unlock() on the way (win).
CheckCollision(newPos, m, n) ==
    LET gridX == GridIndex(newPos.x, n)
        gridZ == GridIndex(newPos.z, n)
    IN IF gridX < 0 \/ gridX >= n \/ gridZ < 0 \/ gridZ >= n
       THEN [collision |-> TRUE, win |-> FALSE]
       ELSE IF m[gridZ][gridX] = WALL
       THEN [collision |-> TRUE, win |-> FALSE]
       ELSE IF m[gridZ][gridX] = EXIT
       THEN [collision |-> FALSE, win |-> TRUE]
       ELSE [collision |-> FALSE, win |-> FALSE]

\* main.js:137-138: velocity -= velocity * 10.0 * delta, five sixths of the
\* component; on the half-cell grid, a value from 0 to the component.
Damped(c) == IF c >= 0 THEN 0 .. c ELSE c .. 0

\* main.js:141-163: player.direction (x, z) from the keys and, in first-person
\* mode, the left joystick past half its range.
Direction(ks, joy, mode) ==
    LET fp == mode = "first-person"
        n(held) == IF held THEN 1 ELSE 0
    IN [z |-> n("s" \in ks \/ (fp /\ 2 * joy.y > 1)) - n("w" \in ks \/ (fp /\ 2 * joy.y < -1)),
        x |-> n("d" \in ks \/ (fp /\ 2 * joy.x > 1)) - n("a" \in ks \/ (fp /\ 2 * joy.x < -1))]

\* main.js:183 and 189: some component of player.direction is not 0, for the
\* values the left joystick may hold at this frame.
Moving(ks, mode) ==
    { LET dir == Direction(ks, joy, mode) IN dir.x # 0 \/ dir.z # 0 : joy \in JoyValues }

\* main.js:165-194: player.velocity on an axis after damping (c) and the
\* thrust.  Without a direction nothing is added.  With one, speed times the
\* camera's forward and right vectors is added; the model does not hold the
\* camera's orientation, so the result is any speed up to MaxVel.
NewVelocity(c, moving) == IF moving THEN (0 - MaxVel) .. MaxVel ELSE Damped(c)

\* Resolve with the two slides of main.js:205-229 in the other order.
ResolveZFirst(pos, v, m, n) ==
    LET newPos == [x |-> pos.x + v.x, z |-> pos.z + v.z]
        newPosX == [x |-> pos.x + v.x, z |-> pos.z]
        newPosZ == [x |-> pos.x, z |-> pos.z + v.z]
        c == CheckCollision(newPos, m, n)
        cx == CheckCollision(newPosX, m, n)
        cz == CheckCollision(newPosZ, m, n)
    IN IF ~ c.collision
       THEN [position |-> newPos, velocity |-> v, taken |-> "full", win |-> c.win]
       ELSE IF ~ cz.collision
       THEN [position |-> newPosZ, velocity |-> v, taken |-> "z", win |-> c.win \/ cz.win]
       ELSE IF ~ cx.collision
       THEN [position |-> newPosX, velocity |-> v, taken |-> "x",
             win |-> c.win \/ cz.win \/ cx.win]
       ELSE [position |-> pos, velocity |-> [x |-> 0, z |-> 0], taken |-> "none",
             win |-> c.win \/ cx.win \/ cz.win]

\* Resolve without main.js:232: a blocked frame keeps the velocity.
ResolveKeepsVelocity(pos, v, m, n) ==
    LET newPos == [x |-> pos.x + v.x, z |-> pos.z + v.z]
        newPosX == [x |-> pos.x + v.x, z |-> pos.z]
        newPosZ == [x |-> pos.x, z |-> pos.z + v.z]
        c == CheckCollision(newPos, m, n)
        cx == CheckCollision(newPosX, m, n)
        cz == CheckCollision(newPosZ, m, n)
    IN IF ~ c.collision
       THEN [position |-> newPos, velocity |-> v, taken |-> "full", win |-> c.win]
       ELSE IF ~ cx.collision
       THEN [position |-> newPosX, velocity |-> v, taken |-> "x", win |-> c.win \/ cx.win]
       ELSE IF ~ cz.collision
       THEN [position |-> newPosZ, velocity |-> v, taken |-> "z",
             win |-> c.win \/ cx.win \/ cz.win]
       ELSE [position |-> pos, velocity |-> v, taken |-> "none",
             win |-> c.win \/ cx.win \/ cz.win]

\* main.js:196-235: the three candidates of a frame and which one, if any,
\* becomes player.position; win is raised by the checkCollision calls made.
Resolve(pos, v, m, n) ==
    LET newPos == [x |-> pos.x + v.x, z |-> pos.z + v.z]
        newPosX == [x |-> pos.x + v.x, z |-> pos.z]
        newPosZ == [x |-> pos.x, z |-> pos.z + v.z]
        c == CheckCollision(newPos, m, n)
        cx == CheckCollision(newPosX, m, n)
        cz == CheckCollision(newPosZ, m, n)
    IN IF ~ c.collision
       THEN [position |-> newPos, velocity |-> v, taken |-> "full", win |-> c.win]
       ELSE IF ~ cx.collision
       THEN [position |-> newPosX, velocity |-> v, taken |-> "x", win |-> c.win \/ cx.win]
       ELSE IF ~ cz.collision
       THEN [position |-> newPosZ, velocity |-> v, taken |-> "z",
             win |-> c.win \/ cx.win \/ cz.win]
       ELSE [position |-> pos, velocity |-> [x |-> 0, z |-> 0], taken |-> "none",
             win |-> c.win \/ cx.win \/ cz.win]

\* animate without the test of main.js:133: every frame moves the player.
AnimateUnguarded ==
    /\ pc = "done"
    /\ \E moving \in Moving(keys, cameraMode) :
       \E vx \in NewVelocity(velocity.x, moving), vz \in NewVelocity(velocity.z, moving) :
         LET v == [x |-> vx, z |-> vz]
             r == Resolve(position, v, maze, mazeSize)
         IN /\ position' = r.position
            /\ velocity' = r.velocity
            /\ isLocked' = (isLocked /\ ~ r.win)
            /\ messageShown' = (messageShown \/ r.win)
            /\ last' = [op |-> "move", from |-> position, v |-> v,
                        taken |-> r.taken, win |-> r.win]
    /\ UNCHANGED <<genVars, cameraMode, orbitEnabled, keys>>

\* animate with a checkCollision that leaves out the unlock of part_002:39.
AnimateKeepsLock ==
    /\ pc = "done"
    /\ IF isLocked \/ orbitEnabled
       THEN \E moving \in Moving(keys, cameraMode) :
            \E vx \in NewVelocity(velocity.x, moving), vz \in NewVelocity(velocity.z, moving) :
              LET v == [x |-> vx, z |-> vz]
                  r == Resolve(position, v, maze, mazeSize)
              IN /\ position' = r.position
                 /\ velocity' = r.velocity
                 /\ isLocked' = isLocked
                 /\ messageShown' = (messageShown \/ r.win)
                 /\ last' = [op |-> "move", from |-> position, v |-> v,
                             taken |-> r.taken, win |-> r.win]
       ELSE /\ last' = [op |-> "idle"]
            /\ UNCHANGED <<position, velocity, isLocked, messageShown>>
    /\ UNCHANGED <<genVars, cameraMode, orbitEnabled, keys>>

\* animate turning the exit cell into a path when the player wins.
AnimateTakesExit ==
    /\ pc = "done"
    /\ IF isLocked \/ orbitEnabled
       THEN \E moving \in Moving(keys, cameraMode) :
            \E vx \in NewVelocity(velocity.x, moving), vz \in NewVelocity(velocity.z, moving) :
              LET v == [x |-> vx, z |-> vz]
                  r == Resolve(position, v, maze, mazeSize)
              IN /\ position' = r.position
                 /\ velocity' = r.velocity
                 /\ isLocked' = (isLocked /\ ~ r.win)
                 /\ messageShown' = (messageShown \/ r.win)
                 /\ maze' = IF r.win
                            THEN SetCell(maze, GridIndex(r.position.x, mazeSize),
                                         GridIndex(r.position.z, mazeSize), PATH)
                            ELSE maze
                 /\ last' = [op |-> "move", from |-> position, v |-> v,
                             taken |-> r.taken, win |-> r.win]
       ELSE /\ last' = [op |-> "idle"]
            /\ UNCHANGED <<position, velocity, isLocked, messageShown, maze>>
    /\ UNCHANGED <<pc, mazeSize, startX, startY, stack, rand, exitPosition,
                   cameraMode, orbitEnabled, keys>>

\* main.js:129-251 animate: one animation frame.  checkCollision is called
\* inside Resolve; updateMinimap (part_000:28-54) and the renderer only read.
\* A frame with the pointer unlocked and the orbit controls off only renders.
\* pointerControls.unlock() and lock() belong to the three.js library; they are
\* taken to have set isLocked by the time the next frame or handler runs.
Animate ==
    /\ pc = "done"
    /\ IF isLocked \/ orbitEnabled
       THEN \E moving \in Moving(keys, cameraMode) :
            \E vx \in NewVelocity(velocity.x, moving), vz \in NewVelocity(velocity.z, moving) :
              LET v == [x |-> vx, z |-> vz]
                  r == Resolve(position, v, maze, mazeSize)
              IN /\ position' = r.position
                 /\ velocity' = r.velocity
                 /\ isLocked' = (isLocked /\ ~ r.win)
                 /\ messageShown' = (messageShown \/ r.win)
                 /\ last' = [op |-> "move", from |-> position, v |-> v,
                             taken |-> r.taken, win |-> r.win]
       ELSE /\ last' = [op |-> "idle"]
            /\ UNCHANGED <<position, velocity, isLocked, messageShown>>
    /\ UNCHANGED <<genVars, cameraMode, orbitEnabled, keys>>

\* StartClick without the Math.floor of controls.js:126 and 128.
StartClickNoFloor ==
    /\ pc = "done"
    /\ position' = [x |-> (mazeSize - mazeSize + 1) * CELL_SIZE,
                    z |-> (mazeSize - mazeSize + 1) * CELL_SIZE]
    /\ isLocked' = TRUE
    /\ last' = [op |-> "start"]
    /\ UNCHANGED <<genVars, velocity, cameraMode, orbitEnabled, messageShown, keys>>

\* controls.js:123-131: the start button puts the player at the centre of the
\* centre cell and locks the pointer.
StartClick ==
    /\ pc = "done"
    /\ position' = [x |-> (2 * (mazeSize \div 2) - mazeSize + 1) * CELL_SIZE,
                    z |-> (2 * (mazeSize \div 2) - mazeSize + 1) * CELL_SIZE]
    /\ isLocked' = TRUE
    /\ last' = [op |-> "start"]
    /\ UNCHANGED <<genVars, velocity, cameraMode, orbitEnabled, messageShown, keys>>

\* controls.js:51-70 toggleCameraMode, on the key "c" (controls.js:108-110).
ToggleCameraMode ==
    /\ pc = "done"
    /\ IF cameraMode = "first-person"
       THEN /\ cameraMode' = "third-person"
            /\ isLocked' = FALSE
            /\ orbitEnabled' = TRUE
       ELSE /\ cameraMode' = "first-person"
            /\ orbitEnabled' = FALSE
            /\ isLocked' = TRUE
    /\ last' = [op |-> "toggle"]
    /\ UNCHANGED <<genVars, position, velocity, messageShown, keys>>

\* controls.js:106-107: keydown of a movement key.  ("c" is ToggleCameraMode;
\* "r" reloads the page and starts the program anew.)
KeyDown ==
    /\ pc = "done"
    /\ \E k \in MoveKeys :
         /\ Cardinality(keys \cup {k}) <= MaxKeys
         /\ keys' = keys \cup {k}
    /\ UNCHANGED <<genVars, position, velocity, cameraMode, isLocked, orbitEnabled,
                   messageShown, last>>

\* controls.js:115-117: keyup.
KeyUp ==
    /\ pc = "done"
    /\ \E k \in MoveKeys : keys' = keys \ {k}
    /\ UNCHANGED <<genVars, position, velocity, cameraMode, isLocked, orbitEnabled,
                   messageShown, last>>

Next ==
    \/ NextGen
    \/ Animate
    \/ StartClick
    \/ ToggleCameraMode
    \/ KeyDown
    \/ KeyUp

Spec == Init /\ [][Next]_vars

(***************************************************************************)
(* Properties of generateMaze, checked under SpecGen.                      *)
(***************************************************************************)

Cells(n) == Idx(n) \X Idx(n)

\* Cells <<x, y>> next to each other along one axis.
Adjacent(c, d) ==
    \/ c[1] = d[1] /\ (c[2] = d[2] + 1 \/ c[2] = d[2] - 1)
    \/ c[2] = d[2] /\ (c[1] = d[1] + 1 \/ c[1] = d[1] - 1)

NonWall(m, n) == { c \in Cells(n) : m[c[2]][c[1]] # WALL }

RECURSIVE Flood(_, _, _)
Flood(m, n, seen) ==
    LET more == { c \in NonWall(m, n) \ seen : \E d \in seen : Adjacent(c, d) }
    IN IF more = {} THEN seen ELSE Flood(m, n, seen \cup more)

\* The cells a walk over non-wall cells reaches from the start cell.
Reachable(m, n, sx, sy) == Flood(m, n, {<<sx, sy>>})

\* C1: when generateMaze has returned, every cell that is not a wall (path or
\* exit) is reached from the start cell by steps between non-wall cells next
\* to each other.  Stated for every size and start of SpecGen that generateMaze
\* returns for, the odd sizes from 5 among them.
C1_Connected ==
    pc = "done" => NonWall(maze, mazeSize) \subseteq Reachable(maze, mazeSize, startX, startY)

\* An odd size from 5, a start on the border, and the far corner region carved
\* and reached.
C1_Witness ==
    /\ pc = "done"
    /\ mazeSize >= 5
    /\ mazeSize % 2 = 1
    /\ startX = 0
    /\ startY = 1
    /\ maze[mazeSize - 2][mazeSize - 1] # WALL
    /\ <<mazeSize - 1, mazeSize - 2>> \in Reachable(maze, mazeSize, startX, startY)

\* C2: when generateMaze has returned, exactly one cell holds the exit, it is
\* not the start cell, and every other cell is a wall or a path.
C2_OneExit ==
    pc = "done" =>
        /\ Cardinality({ c \in Cells(mazeSize) : maze[c[2]][c[1]] = EXIT }) = 1
        /\ maze[startY][startX] # EXIT
        /\ \A c \in Cells(mazeSize) : maze[c[2]][c[1]] \in {WALL, PATH, EXIT}

\* The start cell is one the exit loop can draw, and the exit went to the
\* pair drawn last.
C2_Witness ==
    /\ pc = "done"
    /\ mazeSize >= 5
    /\ startX \in 1 .. (mazeSize - 2)
    /\ startY \in 1 .. (mazeSize - 2)
    /\ maze[rand[2]][rand[1]] = EXIT
    /\ maze[startY][startX] = PATH

\* C3: with an invalid size (even, or smaller than 3) generateMaze ends in an
\* error before it carves anything or enters the exit loop.
C3_FailsFast ==
    (mazeSize % 2 = 0 \/ mazeSize < 3) => pc \in {"load", "threw"}

\* The interior of the grid: both coordinates in [1, size - 2].
Interior(n) == (1 .. (n - 2)) \X (1 .. (n - 2))

\* Path cells other than the start cell.
OtherPaths(m, n, sx, sy) ==
    { c \in Cells(n) : m[c[2]][c[1]] = PATH /\ c # <<sx, sy>> }

\* C4 as claimed: if carving leaves a path cell other than the start cell, the
\* exit loop ends (under fair sampling).
C4_Original ==
    (pc = "place" /\ OtherPaths(maze, mazeSize, startX, startY) # {}) ~> (pc = "done")

\* C4 amended: if carving leaves a path cell other than the start cell in the
\* interior of the grid, the exit loop ends (under fair sampling).
C4_Terminates ==
    (pc = "place" /\ OtherPaths(maze, mazeSize, startX, startY) \cap Interior(mazeSize) # {})
        ~> (pc = "done")

\* The loop has ended in the case of the claim: the exit lies in the interior,
\* at the pair drawn last, and another interior cell is a wall, a draw the loop
\* refuses.
C4_Witness ==
    /\ pc = "done"
    /\ mazeSize >= 5
    /\ \E c \in Interior(mazeSize) : maze[c[2]][c[1]] = WALL
    /\ <<rand[1], rand[2]>> \in Interior(mazeSize)
    /\ maze[rand[2]][rand[1]] = EXIT

(***************************************************************************)
(* Properties of the movement frame, checked under Spec.                   *)
(***************************************************************************)

\* The cell <<x, y>> a position maps to.
CellOf(p) == <<GridIndex(p.x, mazeSize), GridIndex(p.z, mazeSize)>>

\* The classification of a position: out of the grid or in a wall, in the exit
\* cell, or in a path cell.
Classify(p) ==
    LET c == CellOf(p)
    IN IF c \notin Cells(mazeSize) THEN "Blocked"
       ELSE IF maze[c[2]][c[1]] = WALL THEN "Blocked"
       ELSE IF maze[c[2]][c[1]] = EXIT THEN "Exit"
       ELSE "Open"

\* The candidates of the frame that last records.
FullCandidate == [x |-> last.from.x + last.v.x, z |-> last.from.z + last.v.z]
XCandidate == [x |-> last.from.x + last.v.x, z |-> last.from.z]
ZCandidate == [x |-> last.from.x, z |-> last.from.z + last.v.z]

AllBlocked ==
    /\ Classify(FullCandidate) = "Blocked"
    /\ Classify(XCandidate) = "Blocked"
    /\ Classify(ZCandidate) = "Blocked"

\* C5: once the game runs, whatever frames, start-button clicks and camera
\* toggles have happened, the player's position maps to a cell of the grid
\* that is a path or the exit.
C5_InOpenCell == pc = "done" => Classify(position) # "Blocked"

\* A frame in third-person mode has moved the player into another cell.
C5_Witness ==
    /\ pc = "done"
    /\ last.op = "move"
    /\ cameraMode = "third-person"
    /\ last.taken # "none"
    /\ CellOf(position) # CellOf(last.from)

\* C6: in a frame whose combined candidate is blocked and whose x-only
\* candidate is not, the position becomes the x-only candidate, whether the
\* z-only candidate is open or not; the z-only candidate is taken only when
\* the combined and the x-only candidates are both blocked.
C6_XBeforeZ ==
    last.op = "move" =>
        /\ (Classify(FullCandidate) = "Blocked" /\ Classify(XCandidate) # "Blocked")
               => (position = XCandidate /\ last.taken = "x")
        /\ last.taken = "z"
               => /\ Classify(FullCandidate) = "Blocked"
                  /\ Classify(XCandidate) = "Blocked"
                  /\ position = ZCandidate

\* A diagonal step into a corner with both slides open: the x slide is taken.
C6_Witness ==
    /\ last.op = "move"
    /\ last.v.x # 0
    /\ last.v.z # 0
    /\ Classify(FullCandidate) = "Blocked"
    /\ Classify(XCandidate) # "Blocked"
    /\ Classify(ZCandidate) # "Blocked"
    /\ position = XCandidate

\* C7: in a frame whose three candidates are all blocked the position stays
\* and the velocity becomes zero; in a frame that takes a candidate the
\* velocity is the one the frame computed.
C7_BlockedStops ==
    last.op = "move" =>
        /\ AllBlocked => (position = last.from /\ velocity = [x |-> 0, z |-> 0])
        /\ ~ AllBlocked => velocity = last.v

\* A diagonal step with nothing open.
C7_Witness ==
    /\ last.op = "move"
    /\ last.v.x # 0
    /\ last.v.z # 0
    /\ AllBlocked
    /\ velocity = [x |-> 0, z |-> 0]

\* C8: a frame with a zero displacement leaves the position as it was and
\* raises the win exactly when that position lies in the exit cell.
C8_ZeroDisplacement ==
    (last.op = "move" /\ last.v = [x |-> 0, z |-> 0]) =>
        /\ position = last.from
        /\ last.win <=> Classify(last.from) = "Exit"

\* Standing still in the exit cell.
C8_Witness ==
    /\ last.op = "move"
    /\ last.v = [x |-> 0, z |-> 0]
    /\ Classify(last.from) = "Exit"
    /\ last.win

\* The candidate a frame took.
Taken ==
    IF last.taken = "full" THEN FullCandidate
    ELSE IF last.taken = "x" THEN XCandidate
    ELSE ZCandidate

\* C9: a frame raises the win (message shown, pointer lock released) exactly
\* when it takes a candidate and that candidate lies in the exit cell; the
\* candidate taken becomes the position; a frame with all candidates blocked
\* takes none and raises nothing.
C9_WinIffExitTaken ==
    last.op = "move" =>
        /\ last.taken = "none" <=> AllBlocked
        /\ last.taken # "none" => (position = Taken /\ Classify(Taken) # "Blocked")
        /\ last.win <=> (last.taken # "none" /\ Classify(Taken) = "Exit")
        /\ last.win => (messageShown /\ ~ isLocked)

\* The win raised by a slide along x into the exit cell, in first-person mode.
C9_Witness ==
    /\ last.op = "move"
    /\ cameraMode = "first-person"
    /\ last.taken = "x"
    /\ last.win
    /\ Classify(position) = "Exit"

\* C10: once generateMaze has returned, no step changes a cell of the grid or
\* the exit position.
C10_GridFrozen ==
    [][pc = "done" => (maze' = maze /\ exitPosition' = exitPosition)]_vars

\* The game has run: a key is held, the camera was toggled and a frame has
\* raised the win.
C10_Witness ==
    /\ pc = "done"
    /\ keys # {}
    /\ cameraMode = "third-person"
    /\ last.op = "move"
    /\ last.win

\* C11: right after a click on the start button, whatever happened before it,
\* the player's position maps to the cell (floor(size / 2), floor(size / 2));
\* that cell is the one carving started from, and it holds a path, not a wall
\* and not the exit.
C11_StartOnPath ==
    last.op = "start" =>
        /\ CellOf(position) = <<mazeSize \div 2, mazeSize \div 2>>
        /\ CellOf(position) = <<startX, startY>>
        /\ maze[mazeSize \div 2][mazeSize \div 2] = PATH
        /\ Classify(position) = "Open"

\* The start button clicked after the game was won in third-person mode, with
\* the player brought back from the exit cell.
C11_Witness ==
    /\ last.op = "start"
    /\ messageShown
    /\ cameraMode = "third-person"
    /\ isLocked
    /\ position = [x |-> 0, z |-> 0]

\* A step that is an animation frame: the key handlers are the only steps that
\* change keys, and the start button and the camera toggle leave their own
\* mark in last.
FrameStep == keys' = keys /\ last'.op \in {"idle", "move"}

\* C12: a frame that finds the pointer unlocked and the orbit controls off
\* leaves the player's position and velocity as they were, makes no collision
\* check (it resolves no move) and raises no win (the message box and the
\* pointer lock stay as they were).
C12_IdleFrame ==
    [][(pc = "done" /\ ~ isLocked /\ ~ orbitEnabled /\ FrameStep) =>
           /\ position' = position
           /\ velocity' = velocity
           /\ last'.op = "idle"
           /\ messageShown' = messageShown
           /\ isLocked' = isLocked]_vars

\* A frame has passed with the pointer unlocked and the orbit controls off
\* while a key was held and the player still had a velocity.
C12_Witness ==
    /\ last.op = "idle"
    /\ ~ isLocked
    /\ ~ orbitEnabled
    /\ keys # {}
    /\ velocity # [x |-> 0, z |-> 0]

(***************************************************************************)
(* Further properties of generateMaze, checked under SpecGen.              *)
(***************************************************************************)

\* The cells an even number of steps from the start cell on both axes: the
\* cells carvePath can be called for.
Nodes(n, sx, sy) ==
    { c \in Cells(n) : (c[1] - sx) % 2 = 0 /\ (c[2] - sy) % 2 = 0 }

\* C13: for an odd size from 5 and any start cell of the grid, when
\* generateMaze has returned every cell an even number of steps from the start
\* on both axes is a path or the exit; for size 5 and start (2, 2) these are
\* the nine cells with coordinates in {0, 2, 4}, the start cell is a path and
\* at least 8 cells are not walls.
C13_NodesCarved ==
    (pc = "done" /\ mazeSize % 2 = 1 /\ mazeSize >= 5) =>
        /\ Nodes(mazeSize, startX, startY) \subseteq NonWall(maze, mazeSize)
        /\ (mazeSize = 5 /\ startX = 2 /\ startY = 2) =>
               /\ {0, 2, 4} \X {0, 2, 4} \subseteq NonWall(maze, mazeSize)
               /\ maze[2][2] = PATH
               /\ Cardinality(NonWall(maze, mazeSize)) >= 8

\* Size 5 from the centre: the four corners are carved and the exit is placed.
C13_Witness ==
    /\ pc = "done"
    /\ mazeSize = 5
    /\ startX = 2
    /\ startY = 2
    /\ maze[0][0] = PATH
    /\ maze[0][4] = PATH
    /\ maze[4][0] = PATH
    /\ maze[4][4] = PATH

\* C14: when generateMaze has returned, floor(coord + size / 2) of the x and z
\* of the exit position it stored are the indices of the cell it marked as the
\* exit, so checkCollision at the exit position finds the exit cell: no
\* collision, and the win raised.
C14_ExitRoundTrip ==
    pc = "done" =>
        LET gridX == GridIndex(exitPosition.x, mazeSize)
            gridZ == GridIndex(exitPosition.z, mazeSize)
        IN /\ <<gridX, gridZ>> \in Cells(mazeSize)
           /\ <<gridX, gridZ>> = <<rand[1], rand[2]>>
           /\ maze[gridZ][gridX] = EXIT
           /\ CheckCollision(exitPosition, maze, mazeSize) =
                  [collision |-> FALSE, win |-> TRUE]

\* The exit at cell (1, 3) of a size-5 grid: world position (-1, 1), kept
\* doubled.
C14_Witness ==
    /\ pc = "done"
    /\ mazeSize = 5
    /\ maze[3][1] = EXIT
    /\ exitPosition = [x |-> -2, z |-> 2]

\* The number of coordinates of the grid with the parity of s.
ParityCount(n, s) == Cardinality({ x \in Idx(n) : (x - s) % 2 = 0 })

\* The cells an odd number of steps from the start cell on both axes.
OddOdd(n, sx, sy) ==
    { c \in Cells(n) : (c[1] - sx) % 2 = 1 /\ (c[2] - sy) % 2 = 1 }

\* The grid returned has 2 * k_x * k_y - 1 cells that are not walls, and the
\* cells an odd number of steps from the start on both axes are all walls.
TreeCount ==
    (pc = "done" /\ mazeSize % 2 = 1) =>
        /\ Cardinality(NonWall(maze, mazeSize)) =
               2 * ParityCount(mazeSize, startX) * ParityCount(mazeSize, startY) - 1
        /\ \A c \in OddOdd(mazeSize, startX, startY) : maze[c[2]][c[1]] = WALL

\* The cells a step changes, for a step between two states that hold a grid.
Changed == { c \in Cells(mazeSize) : maze'[c[2]][c[1]] # maze[c[2]][c[1]] }

\* A step of carving or of the exit loop never changes a cell that is not a
\* wall into a wall, and a step of carving that changes the grid changes
\* exactly two walls, the connector and the cell beyond it, into paths.
CarvedOnce ==
    (mazeSize % 2 = 1 /\ pc \in {"carve", "place"}) =>
        /\ \A c \in Changed : maze'[c[2]][c[1]] # WALL
        /\ (pc = "carve" /\ Changed # {}) =>
               /\ Cardinality(Changed) = 2
               /\ \A c \in Changed : maze[c[2]][c[1]] = WALL /\ maze'[c[2]][c[1]] = PATH

\* C15: for an odd size the carved passages are a spanning tree of the cells
\* carvePath visits: the grid returned has exactly 2 * k_x * k_y - 1 cells that
\* are not walls (k_x * k_y cells visited, one connector for each but the
\* start), every cell an odd number of steps from the start on both axes is a
\* wall, each connector is a wall when it is carved, and no cell is ever set
\* back to a wall.
C15_SpanningTree == [] TreeCount /\ [][CarvedOnce]_vars

\* Size 5 from (1, 0): 2 columns and 3 rows of visited cells, 11 cells carved.
C15_Witness ==
    /\ pc = "done"
    /\ mazeSize = 5
    /\ startX = 1
    /\ startY = 0
    /\ Cardinality(NonWall(maze, mazeSize)) = 11
    /\ maze[1][1] # WALL

(***************************************************************************)
(* The win and the pointer lock, checked under Spec.                       *)
(***************************************************************************)

\* A frame in first-person mode that raised the win has left the pointer
\* unlocked (and the orbit controls are off in that mode).
WinReleases ==
    (last.op = "move" /\ last.win /\ cameraMode = "first-person") =>
        (~ isLocked /\ ~ orbitEnabled)

\* After a win, while the pointer is unlocked and the orbit controls are off,
\* a frame leaves the position and both controls as they are, and the only
\* steps that lock the pointer or enable the orbit controls are the start
\* button and the camera toggle.
FrozenUntilRelock ==
    (pc = "done" /\ messageShown /\ ~ isLocked /\ ~ orbitEnabled) =>
        /\ FrameStep =>
               (position' = position /\ ~ isLocked' /\ ~ orbitEnabled')
        /\ (isLocked' \/ orbitEnabled') => last'.op \in {"start", "toggle"}
        /\ last'.op = "start" => isLocked'
        /\ (last'.op = "toggle" /\ last' # last) =>
               (orbitEnabled' <=> cameraMode = "first-person") /\ (isLocked' <=> ~ orbitEnabled')

\* C16: in first-person mode a frame that raises the win releases the pointer
\* lock, and from then on every frame leaves the player's position as it is
\* until the pointer is locked again (by the start button, or by the camera
\* toggle coming back to first-person) or the camera toggle to third-person
\* enables the orbit controls.
C16_FrozenAfterWin == [] WinReleases /\ [][FrozenUntilRelock]_vars

\* The game was won in first-person mode and a frame has since passed with a
\* key held: the player still stands in the exit cell.
C16_Witness ==
    /\ messageShown
    /\ cameraMode = "first-person"
    /\ ~ isLocked
    /\ last.op = "idle"
    /\ keys # {}
    /\ Classify(position) = "Exit"
====
